---- MODULE Spec2Model ----
(***************************************************************************)
(* State-machine model of the ImageViewing component                       *)
(* (react-native-image-viewing, src/ImageViewing.tsx).                     *)
(*                                                                         *)
(* One action per event handler.  An action contains the whole handler:    *)
(* the state update, the re-render it causes and the useEffect that the    *)
(* re-render triggers.  The embedding application is a second party: its   *)
(* prop changes (visible, imageIndex) and its answer to onImageIndexChange *)
(* are actions of their own.                                               *)
(*                                                                         *)
(* The three hooks (useImageIndexChange, useRequestClose,                  *)
(* useAnimatedComponents) are imported by the component; their state       *)
(* transitions are modelled from the specification and from the way the    *)
(* component uses what they return.                                        *)
(***************************************************************************)
EXTENDS Integers, Sequences, FiniteSets, TLC

\* ------------------------------------------------------------------ bounds
\* Largest image list explored.
MaxImages == 3
\* Number of user/application events allowed in one run of SpecRoundTrip.
MaxUserEvents == 3

\* ------------------------------------------------------- program constants
\* SCREEN.width: the page width of the list, in layout units.
SCREEN_WIDTH == 4

VARIABLES
    \* props
    imageCount,          \* images.length
    imageIndex,          \* props.imageIndex (also the React key)
    visible,             \* props.visible
    hasCallback,         \* props.onImageIndexChange is provided
    customHeader,        \* props.HeaderComponent is provided
    \* hook state
    currentImageIndex,   \* useImageIndexChange
    opacity,             \* useRequestClose
    fading,              \* useRequestClose: fade animation running
    barsVisible,         \* useAnimatedComponents
    \* rendered tree
    rendered,            \* "null" or "Modal"
    modalVisible,        \* the visible prop handed to Modal
    imageListRef,        \* imageList.current is set
    scrollX,             \* contentOffset.x of the list
    scrollEnabled,       \* native prop of the list
    scrollAnimating,     \* an animated scrollToIndex has not reported its end
    \* embedding application
    appEchoes,           \* the app answers onImageIndexChange(i) with imageIndex := i
    parentPending,       \* a parent state update is scheduled
    parentRequested,     \* its value
    \* what the last step did
    lastOp,              \* name of the last handler
    notified,            \* onImageIndexChange calls of the last step
    issued,              \* scrollToIndex requests of the last step
    scrollError,         \* the last step raised an error
    closeCalls,          \* props.onRequestClose calls of the last step
    zoomGate,            \* the last zoom event was onZoom(true)
    remounted,           \* the first instance has been replaced (key change)
    budget               \* events left (SpecRoundTrip only)

props == <<imageCount, imageIndex, visible, hasCallback, customHeader>>
hooks == <<currentImageIndex, opacity, fading, barsVisible>>
tree == <<rendered, modalVisible, imageListRef, scrollX, scrollEnabled,
          scrollAnimating>>
app == <<appEchoes, parentPending, parentRequested>>
trace == <<lastOp, notified, issued, scrollError, closeCalls, zoomGate, remounted>>
core == <<props, hooks, tree, app, trace>>
vars == <<core, budget>>

\* ----------------------------------------------------------------- helpers
Min(a, b) == IF a < b THEN a ELSE b
Max(a, b) == IF a > b THEN a ELSE b
Clamp(x, lo, hi) == Max(lo, Min(x, hi))

\* Math.round(x / w) for w > 0: round half up.
Round(x, w) == (2 * x + w) \div (2 * w)

\* Offsets by which a settled page may miss its page boundary: less than
\* half a page (pagingEnabled snaps to the nearest page).
Jitter == (0 - ((SCREEN_WIDTH - 1) \div 2)) .. ((SCREEN_WIDTH - 1) \div 2)

\* --------------------------------------------------- the list (lines 182-221)
\* getItemCount={() => images.length}
getItemCountPlusOne == imageCount + 1
getItemCount == imageCount

\* getItemLayout: offset: SCREEN_WIDTH * index
getItemLayoutOffset(index) == SCREEN_WIDTH * index

\* Largest content offset of the list: its last page.
MaxOffset == getItemLayoutOffset(getItemCount - 1)

\* The page the list shows at offset x.
PageOf(x) == Round(x, SCREEN_WIDTH)

\* ------------------------------------------------------------------- hooks
\* useImageIndexChange(imageIndex, SCREEN): initial state.
InitialIndex(p) == p

\* useImageIndexChange: the index onScroll stores for contentOffset.x = x.
OnScrollIndex(x) ==
    LET nextIndex == Round(x, SCREEN_WIDTH)
    IN  IF nextIndex < 0 THEN 0 ELSE nextIndex

\* ------------------------------------------------------------------ render
\* if (!visible) return null; else <Modal visible={visible}> ... <VirtualizedList ref>
RenderAlways(v) == [rendered |-> "Modal", modalVisible |-> v, list |-> TRUE]
Render(v) ==
    IF ~v
    THEN [rendered |-> "null", modalVisible |-> FALSE, list |-> FALSE]
    ELSE [rendered |-> "Modal", modalVisible |-> v, list |-> TRUE]

\* useEffect(() => { if (onImageIndexChange) onImageIndexChange(currentImageIndex) },
\*           [currentImageIndex]): the calls made by a commit that takes the index
\* from prev to cur (mounting: the first commit of an instance).
IndexEffectMountOnly(mounting, prev, cur) ==
    IF hasCallback /\ mounting THEN <<cur>> ELSE <<>>
IndexEffect(mounting, prev, cur) ==
    IF hasCallback /\ (mounting \/ prev # cur) THEN <<cur>> ELSE <<>>

\* The application's onImageIndexChange: when it echoes, it schedules
\* imageIndex := i for the last call i.
AppHears(calls, stillPending) ==
    IF calls # <<>> /\ appEchoes
    THEN /\ parentPending' = TRUE
         /\ parentRequested' = calls[Len(calls)]
    ELSE /\ parentPending' = stillPending
         /\ UNCHANGED parentRequested

\* A commit of the mounted instance that stores newIndex as the current index.
CommitIndex(newIndex) ==
    /\ currentImageIndex' = newIndex
    /\ notified' = IndexEffect(FALSE, currentImageIndex, newIndex)
    /\ AppHears(notified', parentPending)

\* The tree rendered for visibility v and imageIndex prop p, after the list
\* (if any) has been mounted anew: initialScrollIndex={imageIndex}.
FreshTree(v, p) ==
    /\ rendered' = Render(v).rendered
    /\ modalVisible' = Render(v).modalVisible
    /\ imageListRef' = Render(v).list
    /\ scrollX' = IF Render(v).list THEN getItemLayoutOffset(p) ELSE 0
    /\ scrollEnabled' = TRUE
    /\ scrollAnimating' = FALSE

\* <ImageViewing key={props.imageIndex} .../>
KeyConstant(p) == 0
KeyOf(p) == p

\* A new instance of ImageViewing for imageIndex prop p (the key changed).
Mount(p) ==
    /\ imageIndex' = p
    /\ currentImageIndex' = InitialIndex(p)
    /\ opacity' = 1
    /\ barsVisible' = TRUE
    /\ FreshTree(visible, p)
    /\ notified' = IndexEffect(TRUE, currentImageIndex, InitialIndex(p))
    /\ remounted' = TRUE
    /\ UNCHANGED <<imageCount, visible, hasCallback, customHeader, fading>>

\* The parent renders EnhancedImageViewing with imageIndex = p.
ParentProps(p, stillPending) ==
    IF KeyOf(p) # KeyOf(imageIndex)
    THEN /\ Mount(p)
         /\ AppHears(notified', stillPending)
    ELSE /\ imageIndex' = p
         /\ notified' = <<>>
         /\ AppHears(<<>>, stillPending)
         /\ UNCHANGED <<imageCount, visible, hasCallback, customHeader, hooks, tree,
                        remounted>>

\* Fields of the step record that a handler leaves empty.
NoScrollRequest == issued' = <<>> /\ scrollError' = FALSE
NoClose == closeCalls' = 0

\* ------------------------------------------------------------------- Init
\* The component right after its first commit: the props are the
\* application's choice, the mount effect has run.
InitCore ==
    /\ imageCount \in 1..MaxImages
    /\ imageIndex \in 0..(imageCount - 1)
    /\ visible \in BOOLEAN
    /\ hasCallback \in BOOLEAN
    /\ customHeader \in BOOLEAN
    /\ appEchoes \in (IF hasCallback THEN BOOLEAN ELSE {FALSE})
    /\ currentImageIndex = InitialIndex(imageIndex)
    /\ opacity = 1
    /\ fading = FALSE
    /\ barsVisible = TRUE
    /\ rendered = Render(visible).rendered
    /\ modalVisible = Render(visible).modalVisible
    /\ imageListRef = Render(visible).list
    /\ scrollX = IF Render(visible).list THEN getItemLayoutOffset(imageIndex) ELSE 0
    /\ scrollEnabled = TRUE
    /\ scrollAnimating = FALSE
    /\ notified = IndexEffect(TRUE, imageIndex, currentImageIndex)
    /\ parentPending = (hasCallback /\ appEchoes)
    /\ parentRequested = imageIndex
    /\ lastOp = "mount"
    /\ issued = <<>>
    /\ scrollError = FALSE
    /\ closeCalls = 0
    /\ zoomGate = FALSE
    /\ remounted = FALSE

Init == InitCore /\ budget = MaxUserEvents

\* ---------------------------------------------------------------- actions
\* The user swipes the list by dir pages (0: the swipe falls back); the list
\* settles within jit of the page and reports onMomentumScrollEnd={onScroll}.
\* The list takes a swipe only when scrolling is enabled and no animated
\* scroll is under way.
Swipe(dir, jit) ==
    /\ imageListRef
    /\ scrollEnabled
    /\ ~scrollAnimating
    /\ LET target == Clamp(PageOf(scrollX) + dir, 0, getItemCount - 1)
           x == Clamp(getItemLayoutOffset(target) + jit, 0, MaxOffset)
       IN  /\ scrollX' = x
           /\ CommitIndex(OnScrollIndex(x))
    /\ scrollAnimating' = FALSE
    /\ lastOp' = (CASE dir = 1 -> "swipeNext"
                    [] dir = 0 - 1 -> "swipePrev"
                    [] OTHER -> "swipeStay")
    /\ NoScrollRequest
    /\ NoClose
    /\ UNCHANGED <<props, opacity, fading, barsVisible, rendered, modalVisible,
                   imageListRef, scrollEnabled, appEchoes, zoomGate, remounted>>

\* The list reports the end of an animated scrollToIndex:
\* onMomentumScrollEnd={onScroll}.
MomentumScrollEnd ==
    /\ imageListRef
    /\ scrollAnimating
    /\ CommitIndex(OnScrollIndex(scrollX))
    /\ scrollAnimating' = FALSE
    /\ lastOp' = "momentumEnd"
    /\ NoScrollRequest
    /\ NoClose
    /\ UNCHANGED <<props, opacity, fading, barsVisible, rendered, modalVisible,
                   imageListRef, scrollX, scrollEnabled, appEchoes, zoomGate, remounted>>

\* VirtualizedList.scrollToIndex({index, animated}): an index outside the
\* list raises an error and does not scroll.
ScrollToIndex(index, animated) ==
    /\ issued' = <<[index |-> index, animated |-> animated]>>
    /\ IF index >= 0 /\ index < getItemCount
       THEN /\ scrollX' = getItemLayoutOffset(index)
            /\ scrollAnimating' = animated
            /\ scrollError' = FALSE
       ELSE /\ scrollError' = TRUE
            /\ UNCHANGED <<scrollX, scrollAnimating>>

\* The handle is rebuilt on every render: it reads the current index.
scrollNextIndexAtMount == imageIndex + 1
scrollNextIndex == currentImageIndex + 1

scrollPrevIndex == currentImageIndex - 1

\* What a call of the handle leaves alone.
HandleFrame ==
    /\ notified' = <<>>
    /\ NoClose
    /\ UNCHANGED <<props, hooks, rendered, modalVisible, imageListRef,
                   scrollEnabled, app, zoomGate, remounted>>

\* ref.scrollNext()
ScrollNextUnguarded ==
    /\ ScrollToIndex(scrollNextIndex, TRUE)
    /\ lastOp' = "scrollNext"
    /\ HandleFrame
ScrollNext ==
    /\ IF ~imageListRef
       THEN /\ NoScrollRequest
            /\ UNCHANGED <<scrollX, scrollAnimating>>
       ELSE ScrollToIndex(scrollNextIndex, TRUE)
    /\ lastOp' = "scrollNext"
    /\ HandleFrame

\* ref.scrollPrev()
ScrollPrev ==
    /\ IF ~imageListRef
       THEN /\ NoScrollRequest
            /\ UNCHANGED <<scrollX, scrollAnimating>>
       ELSE ScrollToIndex(scrollPrevIndex, TRUE)
    /\ lastOp' = "scrollPrev"
    /\ HandleFrame

\* setNativeProps({ scrollEnabled: !isScaled })
NativeScrollEnabledSame(isScaled) == isScaled
NativeScrollEnabled(isScaled) == ~isScaled

\* onZoom(isScaled), reported by the shown ImageItem.
OnZoom(isScaled) ==
    /\ imageListRef
    /\ scrollEnabled' = NativeScrollEnabled(isScaled)
    /\ barsVisible' = ~isScaled
    /\ zoomGate' = isScaled
    /\ lastOp' = (IF isScaled THEN "onZoomTrue" ELSE "onZoomFalse")
    /\ notified' = <<>>
    /\ NoScrollRequest
    /\ NoClose
    /\ UNCHANGED <<props, currentImageIndex, opacity, fading, rendered,
                   modalVisible, imageListRef, scrollX, scrollAnimating, app,
                   remounted>>

\* onPressHandler: onPress(src); toggleBarsVisible()
OnPress ==
    /\ imageListRef
    /\ barsVisible' = ~barsVisible
    /\ lastOp' = "onPress"
    /\ notified' = <<>>
    /\ NoScrollRequest
    /\ NoClose
    /\ UNCHANGED <<props, currentImageIndex, opacity, fading, tree, app, zoomGate, remounted>>

\* onRequestCloseEnhanced (useRequestClose): starts the fade; the
\* application's onRequestClose waits for its end.
OnRequestCloseEnhanced ==
    /\ fading' = TRUE
    /\ opacity' = 0
    /\ closeCalls' = 0

\* props.onRequestClose called on the spot.
OnRequestCloseDirect ==
    /\ closeCalls' = 1
    /\ UNCHANGED <<fading, opacity>>

CloseFrame ==
    /\ notified' = <<>>
    /\ NoScrollRequest
    /\ UNCHANGED <<props, currentImageIndex, barsVisible, tree, app, zoomGate, remounted>>

\* <Modal onRequestClose={onRequestCloseEnhanced}>: hardware back.
ModalRequestCloseDirect ==
    /\ rendered = "Modal"
    /\ OnRequestCloseDirect
    /\ lastOp' = "modalRequestClose"
    /\ CloseFrame
ModalRequestClose ==
    /\ rendered = "Modal"
    /\ OnRequestCloseEnhanced
    /\ lastOp' = "modalRequestClose"
    /\ CloseFrame

\* <ImageDefaultHeader onRequestClose={onRequestCloseEnhanced}/>, rendered
\* when no HeaderComponent is given.
HeaderRequestClose ==
    /\ rendered = "Modal"
    /\ ~customHeader
    /\ OnRequestCloseEnhanced
    /\ lastOp' = "headerRequestClose"
    /\ CloseFrame

\* <ImageItem onRequestClose={onRequestCloseEnhanced}>: swipe to close.
ItemRequestClose ==
    /\ imageListRef
    /\ OnRequestCloseEnhanced
    /\ lastOp' = "itemRequestClose"
    /\ CloseFrame

\* The fade ends: the application's onRequestClose is called.
FadeComplete ==
    /\ fading
    /\ fading' = FALSE
    /\ opacity' = 1
    /\ closeCalls' = 1
    /\ lastOp' = "fadeComplete"
    /\ CloseFrame

\* The application changes the visible prop.
SetVisible(v) ==
    /\ v # visible
    /\ visible' = v
    /\ FreshTree(v, imageIndex)
    /\ lastOp' = "setVisible"
    /\ notified' = <<>>
    /\ NoScrollRequest
    /\ NoClose
    /\ UNCHANGED <<imageCount, imageIndex, hasCallback, customHeader, hooks, app,
                   zoomGate, remounted>>

\* The application changes the imageIndex prop on its own.
SetImageIndex(p) ==
    /\ p \in 0..(imageCount - 1)
    /\ p # imageIndex
    /\ ParentProps(p, parentPending)
    /\ lastOp' = "setImageIndex"
    /\ NoScrollRequest
    /\ NoClose
    /\ UNCHANGED <<appEchoes, zoomGate>>

\* The parent's scheduled update imageIndex := parentRequested is rendered.
ParentRender ==
    /\ parentPending
    /\ ParentProps(parentRequested, FALSE)
    /\ lastOp' = "parentRender"
    /\ NoScrollRequest
    /\ NoClose
    /\ UNCHANGED <<appEchoes, zoomGate>>

\* ------------------------------------------------------- specifications
Next ==
    \/ \E dir \in {0 - 1, 0, 1}, jit \in Jitter : Swipe(dir, jit) /\ UNCHANGED budget
    \/ MomentumScrollEnd /\ UNCHANGED budget
    \/ ScrollNext /\ UNCHANGED budget
    \/ ScrollPrev /\ UNCHANGED budget
    \/ \E z \in BOOLEAN : OnZoom(z) /\ UNCHANGED budget
    \/ OnPress /\ UNCHANGED budget
    \/ ModalRequestClose /\ UNCHANGED budget
    \/ HeaderRequestClose /\ UNCHANGED budget
    \/ ItemRequestClose /\ UNCHANGED budget
    \/ FadeComplete /\ UNCHANGED budget
    \/ \E v \in BOOLEAN : SetVisible(v) /\ UNCHANGED budget
    \/ \E p \in 0..(MaxImages - 1) : SetImageIndex(p) /\ UNCHANGED budget
    \/ ParentRender /\ UNCHANGED budget

Spec == Init /\ [][Next]_vars

\* The round trip: the application passes onImageIndexChange and answers
\* every call by setting the imageIndex prop; it changes the prop in no other
\* way.  The user and the application make at most MaxUserEvents moves.
\* React renders a scheduled update: ParentRender is weakly fair.
InitRoundTrip == InitCore /\ hasCallback /\ appEchoes /\ budget = MaxUserEvents

Spend == budget > 0 /\ budget' = budget - 1

NextRoundTrip ==
    \/ \E dir \in {0 - 1, 0, 1}, jit \in Jitter : Swipe(dir, jit) /\ Spend
    \/ MomentumScrollEnd /\ UNCHANGED budget
    \/ ScrollNext /\ Spend
    \/ ScrollPrev /\ Spend
    \/ \E z \in BOOLEAN : OnZoom(z) /\ Spend
    \/ OnPress /\ Spend
    \/ ModalRequestClose /\ Spend
    \/ HeaderRequestClose /\ Spend
    \/ ItemRequestClose /\ Spend
    \/ FadeComplete /\ UNCHANGED budget
    \/ \E v \in BOOLEAN : SetVisible(v) /\ Spend
    \/ ParentRender /\ UNCHANGED budget

SpecRoundTrip ==
    InitRoundTrip /\ [][NextRoundTrip]_vars /\ WF_vars(ParentRender /\ UNCHANGED budget)

\* ------------------------------------------------------------------ claims
InRange(i) == i \in 0..(imageCount - 1)
SwipeOps == {"swipeNext", "swipePrev", "swipeStay"}
SettleOps == SwipeOps \cup {"momentumEnd"}
CloseOps == {"modalRequestClose", "headerRequestClose", "itemRequestClose"}
RemountOps == {"setImageIndex", "parentRender"}

C2_IndexChangeNotified ==
    [][ /\ (lastOp' \in SettleOps /\ currentImageIndex' # currentImageIndex /\ hasCallback)
           => notified' = <<currentImageIndex'>>
        /\ \A k \in 1..Len(notified') : notified'[k] = currentImageIndex' ]_vars

\* C2 witness: a settle has just called onImageIndexChange.
C2_Witness ==
    /\ lastOp \in SettleOps
    /\ notified = <<currentImageIndex>>
    /\ currentImageIndex # imageIndex

\* C3: with the list mounted, scrollNext issues exactly one animated
\* scrollToIndex for the current index plus 1, scrollPrev exactly one for the
\* current index minus 1, whatever settles came before.
C3_HandleTargets ==
    [][ /\ (lastOp' = "scrollNext" /\ imageListRef)
           => issued' = <<[index |-> currentImageIndex + 1, animated |-> TRUE]>>
        /\ (lastOp' = "scrollPrev" /\ imageListRef)
           => issued' = <<[index |-> currentImageIndex - 1, animated |-> TRUE]>> ]_vars

\* C3 witness: scrollNext was called after a settle had moved the current
\* index away from the imageIndex prop.
C3_Witness ==
    /\ lastOp = "scrollNext"
    /\ currentImageIndex # imageIndex
    /\ issued = <<[index |-> currentImageIndex + 1, animated |-> TRUE]>>

\* C4: a settled swipe to the next image advances the current index by
\* exactly 1 below the last image and leaves it at the last image otherwise.
C4_SwipeNextAdvances ==
    [][ lastOp' = "swipeNext"
        => currentImageIndex' = Min(currentImageIndex + 1, imageCount - 1) ]_vars

\* C5: a close request from the modal, the default header or an image item
\* does not call the application's onRequestClose; the call is made when the
\* fade that the request started completes, and only then.
C5_CloseDeferred ==
    [][ /\ lastOp' \in CloseOps => (closeCalls' = 0 /\ fading')
        /\ closeCalls' > 0 => (fading /\ lastOp' = "fadeComplete")
        /\ lastOp' = "fadeComplete" => closeCalls' = 1 ]_vars

\* C5 witness: the fade of a close request has completed and the
\* application's onRequestClose has been called.
C5_Witness ==
    /\ lastOp = "fadeComplete"
    /\ closeCalls = 1
    /\ ~fading

\* C6: the Modal and its list are rendered if and only if visible is true:
\* with visible false the component renders null and the list ref is unset,
\* with visible true the Modal is rendered with visible = true.
C6_RenderedIffVisible ==
    /\ ~visible => (rendered = "null" /\ ~imageListRef)
    /\ visible => (rendered = "Modal" /\ modalVisible /\ imageListRef)

\* C6 witness: the application has hidden a viewer.
C6_Witness ==
    /\ lastOp = "setVisible"
    /\ ~visible
    /\ rendered = "null"

\* C7: with the list ref unset, scrollNext and scrollPrev are no-ops: no
\* scrollToIndex request, no change of the current index, no
\* onImageIndexChange call, no error.
C7_HandleNoOpWithoutList ==
    [][ (lastOp' \in {"scrollNext", "scrollPrev"} /\ ~imageListRef)
        => /\ issued' = <<>>
           /\ ~scrollError'
           /\ notified' = <<>>
           /\ currentImageIndex' = currentImageIndex
           /\ scrollX' = scrollX ]_vars

\* C7 witness: scrollNext was called on a hidden viewer.
C7_Witness ==
    /\ lastOp = "scrollNext"
    /\ ~imageListRef
    /\ issued = <<>>
    /\ ~scrollError

\* C8: every index that scrollNext or scrollPrev hands to scrollToIndex lies
\* in [0, imageCount).
C8_TargetInRange ==
    \A k \in 1..Len(issued) : InRange(issued[k].index)

\* C9 as stated: from onZoom(true) until the next onZoom(false) the list
\* does not scroll and the bars are hidden.
C9_ZoomGatePersists ==
    (zoomGate /\ imageListRef) => (~scrollEnabled /\ ~barsVisible)

\* C9 amended: onZoom(true) disables scrolling and hides the bars,
\* onZoom(false) enables scrolling and shows the bars; scrolling, once
\* disabled, stays disabled until onZoom(false) or a remount of the list;
\* hidden bars stay hidden until onZoom(false), a press or a remount of the
\* component; while scrolling is disabled no swipe is taken.
C9_ZoomGatesPaging ==
    [][ /\ lastOp' = "onZoomTrue" => (~scrollEnabled' /\ ~barsVisible')
        /\ lastOp' = "onZoomFalse" => (scrollEnabled' /\ barsVisible')
        /\ (~scrollEnabled /\ scrollEnabled')
           => lastOp' \in {"onZoomFalse", "setVisible"} \cup RemountOps
        /\ (~barsVisible /\ barsVisible')
           => lastOp' \in {"onZoomFalse", "onPress"} \cup RemountOps
        /\ ~scrollEnabled => lastOp' \notin SwipeOps ]_vars

\* C9 witness: after onZoom(true) another handler has run and the list is
\* still not scrollable, the bars still hidden.
C9_Witness ==
    /\ zoomGate
    /\ imageListRef
    /\ ~scrollEnabled
    /\ ~barsVisible
    /\ lastOp = "momentumEnd"

\* C10: a change of the imageIndex prop makes a new instance whose current
\* index is the new prop; and when the application answers every
\* onImageIndexChange(i) with imageIndex := i, the system comes to rest with
\* imageIndex = current index and no update scheduled: a settle on j
\* schedules imageIndex := j, and the render of that update sets the prop.
Stable == imageIndex = currentImageIndex /\ ~parentPending
C10_RoundTripStabilises ==
    /\ [][imageIndex' # imageIndex => (currentImageIndex' = imageIndex' /\ remounted')]_vars
    /\ [][(lastOp' \in SettleOps /\ currentImageIndex' # currentImageIndex)
          => (parentPending' /\ parentRequested' = currentImageIndex')]_vars
    /\ [][(lastOp' = "parentRender" /\ imageIndex' # imageIndex)
          => imageIndex' = parentRequested]_vars
    /\ <>[]Stable

\* C10 witness: after a settle the application's answer has replaced the
\* instance and the following render changed nothing.
C10_Witness ==
    /\ remounted
    /\ Stable
    /\ lastOp = "parentRender"
    /\ notified = <<>>
    /\ budget < MaxUserEvents

====
